---- MODULE Spec2Model ----
(***************************************************************************)
(* DaoSshMysql (src/dal/dao-ssh/dao-ssh-mysql.ts): the data-access object  *)
(* that reaches a MySQL database through an SSH tunnel.                    *)
(*                                                                         *)
(* Every method is an async function.  The code between two awaits runs    *)
(* without interruption, so each action below is one such stretch: it      *)
(* starts where an awaited promise settles and runs to the next await.     *)
(* Callers are concurrent request contexts that interleave at the awaits.  *)
(*                                                                         *)
(* Strings the code slices or compares by prefix are sequences of          *)
(* one-character strings (<<"x","y">> is "xy"); JavaScript numbers that    *)
(* can be undefined, NaN or infinite are tagged records.                   *)
(***************************************************************************)
EXTENDS Integers, Sequences, FiniteSets, TLC

\* ------------------------------------------------------------------ bounds
\* Operations the callers start, in total, in one behaviour of Spec.
MaxCalls == 2
\* Rows of the table a listing is paged over.
MaxRows == 3
\* Entries of filteringFields.
MaxFilters == 2
\* Entries of settings.list_fields and of settings.excluded_fields.
MaxListFields == 3
MaxExcludedFields == 2

\* ------------------------------------------------------------- descriptors
Callers == {"c1", "c2"}

\* IConnection: the eight descriptor fields and the tunnel's own fields.
Connection(host) ==
    [host |-> host, username |-> "root", password |-> "pw", database |-> "shop",
     port |-> 3306, type |-> "mysql", ssl |-> FALSE, cert |-> "",
     sshHost |-> "bastion"]

Connections == {Connection("h1"), Connection("h2")}

ConfigFields ==
    {"host", "username", "password", "database", "port", "type", "ssl", "cert"}

\* const connectionConfig = { host: host, ..., cert: cert }
ConnectionConfig(connection) == [f \in ConfigFields |-> connection[f]]

\* Cacher: an entry is looked up by the structure of the whole object passed, so
\* a connection and the connectionConfig cut from it are different keys.
CacheKey(descriptor) == [f \in DOMAIN descriptor |-> descriptor[f]]

CacheKeys == Connections \cup {ConnectionConfig(c) : c \in Connections}

\* ------------------------------------------------------------------ values
NoHandle == [kind |-> "none", id |-> 0]
DriverHandle(n) == [kind |-> "driver", id |-> n]
KnexHandle(n) == [kind |-> "knex", id |-> n]

Undefined == [t |-> "undefined", n |-> 0]
NaN == [t |-> "NaN", n |-> 0]
Infinity == [t |-> "Infinity", n |-> 0]
Num(n) == [t |-> "number", n |-> n]

\* Messages.FAILED_ESTABLISH_SSH_CONNECTION in an HttpException
ConnectionEstablishmentFailed ==
    [name |-> "HttpException", message |-> "FAILED_ESTABLISH_SSH_CONNECTION"]
PortError == [name |-> "Error", message |-> "no free port"]
TransportError == [name |-> "Error", message |-> "ssh transport"]
QueryError == [name |-> "Error", message |-> "query failed"]
TypeError ==
    [name |-> "TypeError", message |-> "cannot read column_name of undefined"]
\* throw new Error(e)
WrappedError(e) == [name |-> "Error", message |-> e.message]

Returned(v) == [kind |-> "return", val |-> v]
Thrown(e) == [kind |-> "throw", val |-> e]
NoResult == [kind |-> "none", val |-> FALSE]
\* a promise resolved with no value
Void == [void |-> TRUE]

VARIABLES
    driverCache,   \* Cacher's driver cache: CacheKey -> handle
    knexCache,     \* Cacher's knex cache: CacheKey -> handle
    tunnels,       \* drivers getSshMySqlClient has produced so far
    knexBuilt,     \* knex instances knex({...}) has built so far
    db,            \* the remote database: rows, counters, session state
    connection,    \* this.connection of each caller's DaoSshMysql
    op,            \* the public method each caller is in
    args,          \* its arguments
    pc,            \* the await each caller is suspended at
    ret,           \* the awaits of the enclosing calls, innermost first
    loc,           \* the local variables of the running methods
    awaited,       \* what the current call has awaited from its collaborators
    result,        \* what the last call returned or threw
    calls          \* operations started so far

vars ==
    <<driverCache, knexCache, tunnels, knexBuilt, db, connection, op, args, pc,
      ret, loc, awaited, result, calls>>

\* ------------------------------------------------------------------- Cacher
GetDriverCache(conn) == driverCache[CacheKey(conn)]

SetDriverCache(cache, conn, handle) == [cache EXCEPT ![CacheKey(conn)] = handle]

GetCachedKnex(connectionConfig) == knexCache[CacheKey(connectionConfig)]

\* ------------------------------------------------------------------ catalog
Tables == {"orders", "codes", "notes", "items"}

\* One row of information_schema.columns as the driver returns it.
CatalogColumn(name, dataType, extra) ==
    [COLUMN_NAME |-> name, COLUMN_DEFAULT |-> "NULL", DATA_TYPE |-> dataType,
     EXTRA |-> extra, IS_NULLABLE |-> "YES"]

\* orders: an auto-increment key; codes: a caller-supplied key; notes: no key.
CatalogColumns(tableName) ==
    CASE tableName = "orders" ->
           <<CatalogColumn("id", "int", "auto_increment"),
             CatalogColumn("doc", "json", "")>>
      [] tableName = "codes" ->
           <<CatalogColumn("code", "varchar", ""), CatalogColumn("doc", "json", "")>>
      [] tableName = "notes" -> <<CatalogColumn("doc", "json", "")>>
      [] OTHER ->
           <<CatalogColumn("a", "varchar", ""), CatalogColumn("b", "varchar", "")>>

\* The rows with COLUMN_KEY = 'PRI'.
CatalogPrimaryColumns(tableName) ==
    CASE tableName = "orders" -> <<[COLUMN_NAME |-> "id", DATA_TYPE |-> "int"]>>
      [] tableName = "codes" -> <<[COLUMN_NAME |-> "code", DATA_TYPE |-> "varchar"]>>
      [] OTHER -> <<>>

\* ------------------------------------------------------------------ helpers
LowerCase ==
    [COLUMN_NAME |-> "column_name", COLUMN_DEFAULT |-> "column_default",
     DATA_TYPE |-> "data_type", EXTRA |-> "extra", IS_NULLABLE |-> "is_nullable"]

ObjectKeysToLowercase(obj) ==
    [k \in {LowerCase[x] : x \in DOMAIN obj} |->
        obj[CHOOSE x \in DOMAIN obj : LowerCase[x] = k]]

CheckFieldAutoincrement(columnDefault) == columnDefault = "auto_increment"

\* JSON.stringify of a string value: the value in double quotes.
JsonStringify(v) == <<"\"">> \o v \o <<"\"">>

IndexOf(seq, x) ==
    IF \E i \in 1..Len(seq) : seq[i] = x
    THEN CHOOSE i \in 1..Len(seq) : seq[i] = x /\ \A j \in 1..(i - 1) : seq[j] # x
    ELSE 0

\* ----------------------------------------------------------------- database
\* Sessions are the tunnelled drivers: LAST_INSERT_ID() is kept per session.
Sessions == 1..MaxCalls

EmptyDb ==
    [rows |-> [t \in Tables |-> <<>>],
     autoIncrement |-> [t \in Tables |-> 0],
     lastInsertId |-> [s \in Sessions |-> 0]]

ColumnNames(tableName) ==
    [i \in 1..Len(CatalogColumns(tableName)) |-> CatalogColumns(tableName)[i].COLUMN_NAME]

AutoIncrementColumns(tableName) ==
    {CatalogColumns(tableName)[i].COLUMN_NAME :
        i \in {j \in 1..Len(CatalogColumns(tableName)) :
                  CatalogColumns(tableName)[j].EXTRA = "auto_increment"}}

KeyColumns(tableName) ==
    {CatalogPrimaryColumns(tableName)[i].COLUMN_NAME :
        i \in 1..Len(CatalogPrimaryColumns(tableName))}

RowGet(row, key) == IF key \in DOMAIN row THEN row[key] ELSE Undefined

\* A primary key the row supplies is already taken.
DuplicateKey(database, tableName, row) ==
    \E i \in 1..Len(database.rows[tableName]) :
        \E k \in KeyColumns(tableName) \cap DOMAIN row :
            database.rows[tableName][i][k] = row[k]

\* INSERT on the given session: the server fills an auto-increment column the
\* row leaves out and remembers the value as the session's LAST_INSERT_ID().
Insert(database, tableName, row, session) ==
    LET auto == AutoIncrementColumns(tableName) \ DOMAIN row
        id == database.autoIncrement[tableName] + 1
        stored == [k \in DOMAIN row \cup auto |-> IF k \in auto THEN id ELSE row[k]]
    IN  [rows |-> [database.rows EXCEPT ![tableName] = Append(@, stored)],
         autoIncrement |->
             IF auto = {} THEN database.autoIncrement
             ELSE [database.autoIncrement EXCEPT ![tableName] = id],
         lastInsertId |->
             IF auto = {} THEN database.lastInsertId
             ELSE [database.lastInsertId EXCEPT ![session] = id]]

\* A query can be answered only on a handle that is a tunnelled driver.
CanQuery(handle) == handle.kind = "driver"

\* ------------------------------------------------------------ control flow
NoArgs == [tableName |-> "none"]

NoLocals ==
    [mySqlDriver |-> NoHandle, knex |-> NoHandle, tableStructure |-> <<>>,
     primaryColumns |-> <<>>, row |-> <<>>, page |-> Undefined,
     perPage |-> Undefined, rowsCount |-> Undefined, lastPage |-> Undefined,
     offset |-> Undefined, availableFields |-> <<>>]

Step(p, label, stack, locals, res) ==
    /\ pc' = [pc EXCEPT ![p] = label]
    /\ ret' = [ret EXCEPT ![p] = stack]
    /\ loc' = [loc EXCEPT ![p] = locals]
    /\ result' = [result EXCEPT ![p] = res]

\* suspend at the next await of the same method
Goto(p, label, locals) == Step(p, label, ret[p], locals, result[p])

\* the awaited method resolves: its caller resumes
Return(p, locals) == Step(p, Head(ret[p]), Tail(ret[p]), locals, result[p])

\* the public method settles: its locals are gone
Finish(p, res) == Step(p, "idle", <<>>, NoLocals, res)

\* Mutant: only the first try block is there.
CatchesDriverOnly(p) ==
    /\ op[p] = "testConnect"
    /\ pc[p] \in {"gd_port", "gd_tunnel"}
    /\ ret[p] = <<"tc_knex">>

\* testConnect's two try blocks: around getMySqlDriver and around select(1)
Catches(p) ==
    /\ op[p] = "testConnect"
    /\ \/ pc[p] \in {"gd_port", "gd_tunnel"} /\ ret[p] = <<"tc_knex">>
       \/ pc[p] = "tc_select"

\* addRowInTable's try blocks around the insert and the follow-up query
Wraps(p) ==
    /\ op[p] = "addRowInTable"
    /\ pc[p] \in {"ar_insert", "ar_lastid"}
    /\ Len(loc[p].primaryColumns) > 0

\* an awaited promise rejects with e
Throw(p, e) ==
    IF Catches(p) THEN Finish(p, Returned(FALSE))
    ELSE IF Wraps(p) THEN Finish(p, Thrown(WrappedError(e)))
    ELSE Finish(p, Thrown(e))

Started(p, name, arguments) ==
    /\ pc[p] = "idle"
    /\ calls < MaxCalls
    /\ calls' = calls + 1
    /\ op' = [op EXCEPT ![p] = name]
    /\ args' = [args EXCEPT ![p] = arguments]
    /\ awaited' = [awaited EXCEPT ![p] = <<>>]

\* the awaited promise of a collaborator settles: resolved (ok) or rejected
Settles(p, call, ok) ==
    awaited' = [awaited EXCEPT ![p] = Append(@, [call |-> call, ok |-> ok])]

\* ------------------------------------------------------------ getMySqlDriver
\* The call up to its first await: a cached driver is returned, else
\* getPort() is awaited.  stack: where the callers resume, innermost first.
GetMySqlDriver(p, locals, stack) ==
    LET cachedDriver == GetDriverCache(connection[p])
    IN  IF cachedDriver.kind # "none"
        THEN Step(p, Head(stack), Tail(stack),
                  [locals EXCEPT !.mySqlDriver = cachedDriver], NoResult)
        ELSE Step(p, "gd_port", stack, locals, NoResult)

\* Mutant: the catch block rethrows what the tunnel collaborator raised.
TunnelFailureRethrown(e) == e

\* catch (e) { throw new HttpException(...) }
TunnelFailure(e) == ConnectionEstablishmentFailed

\* await getPort() settles; on a port getSshMySqlClient is called
GdPort(p) ==
    /\ pc[p] = "gd_port"
    /\ \/ Settles(p, "getPort", TRUE) /\ Goto(p, "gd_tunnel", loc[p])
       \/ Settles(p, "getPort", FALSE) /\ Throw(p, PortError)
    /\ UNCHANGED <<driverCache, knexCache, tunnels, knexBuilt, db, connection, op,
                   args, calls>>

\* await getSshMySqlClient(connection, freePort) settles
GdTunnel(p) ==
    /\ pc[p] = "gd_tunnel"
    /\ \/ LET mySqlDriver == DriverHandle(tunnels + 1)
          IN  /\ tunnels' = tunnels + 1
              /\ driverCache' = SetDriverCache(driverCache, connection[p], mySqlDriver)
              /\ Settles(p, "getSshMySqlClient", TRUE)
              /\ Return(p, [loc[p] EXCEPT !.mySqlDriver = mySqlDriver])
       \/ /\ Settles(p, "getSshMySqlClient", FALSE)
          /\ Throw(p, TunnelFailure(TransportError))
          /\ UNCHANGED <<driverCache, tunnels>>
    /\ UNCHANGED <<knexCache, knexBuilt, db, connection, op, args, calls>>

\* ------------------------------------------------------------- configureKnex
\* Synchronous: the cached instance, or a new one, which is stored with
\* Cacher.setDriverCache.  Yields the instance and the caches after the call.
ConfigureKnex(connectionConfig) ==
    LET cachedKnex == GetCachedKnex(connectionConfig)
        newKnex == KnexHandle(knexBuilt + 1)
    IN  IF cachedKnex.kind # "none"
        THEN [knex |-> cachedKnex, driverCache |-> driverCache, knexBuilt |-> knexBuilt]
        ELSE [knex |-> newKnex,
              driverCache |-> SetDriverCache(driverCache, connectionConfig, newKnex),
              knexBuilt |-> knexBuilt + 1]

\* const knex = await this.configureKnex(cfg), then the query is sent
KnexThenQuery(p, connectionConfig, label) ==
    LET k == ConfigureKnex(connectionConfig)
    IN  /\ driverCache' = k.driverCache
        /\ knexBuilt' = k.knexBuilt
        /\ Goto(p, label, [loc[p] EXCEPT !.knex = k.knex])
        /\ UNCHANGED <<knexCache, tunnels, db, connection, op, args, awaited, calls>>

\* --------------------------------------------------------------- testConnect
TestConnect(p) ==
    /\ Started(p, "testConnect", NoArgs)
    /\ GetMySqlDriver(p, NoLocals, <<"tc_knex">>)
    /\ UNCHANGED <<driverCache, knexCache, tunnels, knexBuilt, db, connection>>

\* configureKnex(this.connection), then knex().connection(mySqlDriver).select(1)
TcKnex(p) ==
    /\ pc[p] = "tc_knex"
    /\ KnexThenQuery(p, connection[p], "tc_select")

\* return !!result: the rows of select 1 are an array, which is truthy
TcSelect(p) ==
    /\ pc[p] = "tc_select"
    /\ \/ /\ CanQuery(loc[p].mySqlDriver)
          /\ Settles(p, "select 1", TRUE)
          /\ Finish(p, Returned(TRUE))
       \/ Settles(p, "select 1", FALSE) /\ Throw(p, QueryError)
    /\ UNCHANGED <<driverCache, knexCache, tunnels, knexBuilt, db, connection, op,
                   args, calls>>

\* --------------------------------------------------------- getTableStructure
\* The loop over structureColumnsInLowercase: an auto-increment column's
\* default becomes the sentinel, is_nullable becomes the boolean allow_null.
\* (column_type, with the enum/set parameters and the length cut from it, is
\* not part of this model.)
NormalizeColumn(element) ==
    [column_name |-> element.column_name,
     column_default |->
         IF element.extra = "auto_increment" THEN "auto_increment"
         ELSE element.column_default,
     data_type |-> element.data_type,
     extra |-> element.extra,
     allow_null |-> element.is_nullable = "YES"]

StructureColumns(tableName) ==
    [i \in 1..Len(CatalogColumns(tableName)) |->
        NormalizeColumn(ObjectKeysToLowercase(CatalogColumns(tableName)[i]))]

\* getMySqlDriver has resolved: configureKnex, then the catalog query
TsKnex(p) ==
    /\ pc[p] = "ts_knex"
    /\ KnexThenQuery(p, ConnectionConfig(connection[p]), "ts_query")

TsQuery(p) ==
    /\ pc[p] = "ts_query"
    /\ \/ /\ CanQuery(loc[p].mySqlDriver)
          /\ Settles(p, "structure", TRUE)
          /\ Return(p, [loc[p] EXCEPT
                            !.tableStructure = StructureColumns(args[p].tableName)])
       \/ Settles(p, "structure", FALSE) /\ Throw(p, QueryError)
    /\ UNCHANGED <<driverCache, knexCache, tunnels, knexBuilt, db, connection, op,
                   args, calls>>

\* ---------------------------------------------------- getTablePrimaryColumns
PrimaryColumns(tableName) ==
    [i \in 1..Len(CatalogPrimaryColumns(tableName)) |->
        ObjectKeysToLowercase(CatalogPrimaryColumns(tableName)[i])]

PkKnex(p) ==
    /\ pc[p] = "pk_knex"
    /\ KnexThenQuery(p, ConnectionConfig(connection[p]), "pk_query")

PkQuery(p) ==
    /\ pc[p] = "pk_query"
    /\ \/ /\ CanQuery(loc[p].mySqlDriver)
          /\ Settles(p, "primary", TRUE)
          /\ Return(p, [loc[p] EXCEPT
                            !.primaryColumns = PrimaryColumns(args[p].tableName)])
       \/ Settles(p, "primary", FALSE) /\ Throw(p, QueryError)
    /\ UNCHANGED <<driverCache, knexCache, tunnels, knexBuilt, db, connection, op,
                   args, calls>>

\* ------------------------------------------------------------- addRowInTable
AddTables == {"orders", "codes", "notes"}

\* The rows callers insert: orders leaves its key to the server, codes
\* supplies it.
AddRows(tableName) ==
    CASE tableName = "codes" ->
           {[code |-> c, doc |-> <<"x">>] : c \in {<<"k">>, <<"m">>}}
      [] OTHER -> {[doc |-> <<"x">>]}

AddRowInTable(p) ==
    \E tableName \in AddTables :
        \E row \in AddRows(tableName) :
            /\ Started(p, "addRowInTable", [tableName |-> tableName, row |-> row])
            /\ GetMySqlDriver(p, [NoLocals EXCEPT !.row = row],
                              <<"ts_knex", "ar_structure">>)
            /\ UNCHANGED <<driverCache, knexCache, tunnels, knexBuilt, db, connection>>

\* for (const key in row) if (jsonColumnNames.includes(key)) ...
StringifyJsonColumns(tableStructure, row) ==
    LET jsonColumnNames ==
            {tableStructure[i].column_name :
                i \in {j \in 1..Len(tableStructure) :
                          tableStructure[j].data_type = "json"}}
    IN  [key \in DOMAIN row |->
            IF key \in jsonColumnNames THEN JsonStringify(row[key]) ELSE row[key]]

\* getTableStructure has resolved: the JSON pass, then getTablePrimaryColumns
ArStructure(p) ==
    /\ pc[p] = "ar_structure"
    /\ GetMySqlDriver(p,
           [loc[p] EXCEPT !.row = StringifyJsonColumns(loc[p].tableStructure, loc[p].row)],
           <<"pk_knex", "ar_primary">>)
    /\ UNCHANGED <<driverCache, knexCache, tunnels, knexBuilt, db, connection, op,
                   args, awaited, calls>>

\* const primaryKey = primaryColumns[0]; ... .indexOf(primaryKey.column_name):
\* with no primary column primaryKey is undefined and the read throws.
ArPrimary(p) ==
    /\ pc[p] = "ar_primary"
    /\ IF Len(loc[p].primaryColumns) = 0
       THEN Throw(p, TypeError)
       ELSE GetMySqlDriver(p, loc[p], <<"ar_knex">>)
    /\ UNCHANGED <<driverCache, knexCache, tunnels, knexBuilt, db, connection, op,
                   args, awaited, calls>>

\* configureKnex, then, in each of the three branches, the insert
ArKnex(p) ==
    /\ pc[p] = "ar_knex"
    /\ KnexThenQuery(p, ConnectionConfig(connection[p]), "ar_insert")

PrimaryKeyName(p) == loc[p].primaryColumns[1].column_name

\* tableStructure[primaryKeyIndexInStructure]
PrimaryKeyStructure(p) ==
    LET names == [i \in 1..Len(loc[p].tableStructure) |->
                     loc[p].tableStructure[i].column_name]
    IN  loc[p].tableStructure[IndexOf(names, PrimaryKeyName(p))]

\* Mutant: the auto-increment test is dropped, every key is echoed.
SuppliesKeyAlways(p) == TRUE

\* if (!checkFieldAutoincrement(primaryKeyStructure.column_default)) ... else ...
SuppliesKey(p) == ~CheckFieldAutoincrement(PrimaryKeyStructure(p).column_default)

\* return { [primaryKey.column_name]: value }
KeyObject(name, value) == [k \in {name} |-> value]

\* await ...insert(row) settles; only the auto-increment branch goes on to
\* the follow-up query
ArInsert(p) ==
    /\ pc[p] = "ar_insert"
    /\ \/ /\ CanQuery(loc[p].mySqlDriver)
          /\ ~DuplicateKey(db, args[p].tableName, loc[p].row)
          /\ db' = Insert(db, args[p].tableName, loc[p].row, loc[p].mySqlDriver.id)
          /\ Settles(p, "insert", TRUE)
          /\ IF Len(loc[p].primaryColumns) > 0
             THEN IF SuppliesKey(p)
                  THEN Finish(p, Returned(KeyObject(PrimaryKeyName(p),
                                 RowGet(loc[p].row, PrimaryKeyName(p)))))
                  ELSE Goto(p, "ar_lastid", loc[p])
             ELSE Finish(p, Returned(Void))
       \/ Settles(p, "insert", FALSE) /\ Throw(p, QueryError) /\ UNCHANGED db
    /\ UNCHANGED <<driverCache, knexCache, tunnels, knexBuilt, connection, op, args,
                   calls>>

\* await ...select(knex.raw(`LAST_INSERT_ID()`)) settles
ArLastId(p) ==
    /\ pc[p] = "ar_lastid"
    /\ \/ /\ CanQuery(loc[p].mySqlDriver)
          /\ Settles(p, "last insert id", TRUE)
          /\ Finish(p, Returned(KeyObject(PrimaryKeyName(p),
                        db.lastInsertId[loc[p].mySqlDriver.id])))
       \/ Settles(p, "last insert id", FALSE) /\ Throw(p, QueryError)
    /\ UNCHANGED <<driverCache, knexCache, tunnels, knexBuilt, db, connection, op,
                   args, calls>>

\* ----------------------------------------------------------- table settings
\* ITableSettings: an object with some of list_fields, excluded_fields,
\* search_fields, list_per_page; {} is the empty function.  A key that is
\* missing reads as undefined, which the code treats like an empty list.
IsObjectEmpty(object) == DOMAIN object = {}

Setting(settings, key, undefined) ==
    IF key \in DOMAIN settings THEN settings[key] ELSE undefined

\* --------------------------------------------------------- query predicates
\* Column values, search terms and filter values are strings.
CharOrder == [c \in {"*", "x", "y"} |-> CASE c = "*" -> 0 [] c = "x" -> 1 [] OTHER -> 2]

Min(m, n) == IF m <= n THEN m ELSE n

\* s < t in the order the server compares strings in
Less(s, t) ==
    \E i \in 1..(Min(Len(s), Len(t)) + 1) :
        /\ \A j \in 1..(i - 1) : s[j] = t[j]
        /\ \/ i > Len(s) /\ i <= Len(t)
           \/ i <= Len(s) /\ i <= Len(t) /\ CharOrder[s[i]] < CharOrder[t[i]]

StartsWith(s, v) == Len(v) <= Len(s) /\ SubSeq(s, 1, Len(v)) = v

EndsWith(s, v) == Len(v) <= Len(s) /\ SubSeq(s, Len(s) - Len(v) + 1, Len(s)) = v

Contains(s, v) ==
    \E i \in 0..(Len(s) - Len(v)) : SubSeq(s, i + 1, i + Len(v)) = v

\* One where-clause of a knex builder: how it is joined to the clauses before
\* it (andWhere, orWhere), whether it is negated (andWhereNot), its column,
\* operator and operand.  "like" operands say where the % stands.
Clause(bool, negated, column, operator, value) ==
    [bool |-> bool, negated |-> negated, column |-> column, operator |-> operator,
     value |-> value]

Compare(operator, left, right) ==
    CASE operator = "=" -> left = right
      [] operator = "like%" -> StartsWith(left, right)
      [] operator = "%like" -> EndsWith(left, right)
      [] operator = "%like%" -> Contains(left, right)
      [] operator = ">" -> Less(right, left)
      [] operator = "<" -> Less(left, right)
      [] operator = "<=" -> Less(left, right) \/ left = right
      [] operator = ">=" -> Less(right, left) \/ left = right

ClauseHolds(clause, row) ==
    Compare(clause.operator, row[clause.column], clause.value) # clause.negated

\* The WHERE knex compiles from the clauses in the order they were added: the
\* first clause's and/or is dropped, the others are written as they are, with
\* no parentheses, so the server reads AND before OR: the clauses between two
\* "or"s form a conjunction and the row is selected when one of them holds.
Where(clauses, row) ==
    \/ Len(clauses) = 0
    \/ \E i \in 1..Len(clauses) :
          /\ i = 1 \/ clauses[i].bool = "or"
          /\ ClauseHolds(clauses[i], row)
          /\ \A j \in (i + 1)..Len(clauses) :
                (\A k \in (i + 1)..j : clauses[k].bool = "and")
                    => ClauseHolds(clauses[j], row)

\* switch (criteria) { case FilterCriteriaEnum.eq: builder.andWhere(...) ... }
FilterClause(filterObject) ==
    LET field == filterObject.field
        value == filterObject.value
        criteria == filterObject.criteria
    IN  CASE criteria = "eq" -> Clause("and", FALSE, field, "=", value)
          [] criteria = "startswith" -> Clause("and", FALSE, field, "like%", value)
          [] criteria = "endswith" -> Clause("and", FALSE, field, "%like", value)
          [] criteria = "gt" -> Clause("and", FALSE, field, ">", value)
          [] criteria = "lt" -> Clause("and", FALSE, field, "<", value)
          [] criteria = "lte" -> Clause("and", FALSE, field, "<=", value)
          [] criteria = "gte" -> Clause("and", FALSE, field, ">=", value)
          [] criteria = "contains" -> Clause("and", FALSE, field, "%like%", value)
          [] criteria = "icontains" -> Clause("and", TRUE, field, "%like%", value)

FilterClauses(filteringFields) ==
    [i \in 1..Len(filteringFields) |-> FilterClause(filteringFields[i])]

\* builder.orWhereRaw(` CAST (?? AS CHAR (255))=?`, [field, searchedFieldValue])
\* for each search field, when there are search fields and a search term
SearchClauses(settings, searchedFieldValue) ==
    LET search_fields == Setting(settings, "search_fields", <<>>)
    IN  IF Len(search_fields) > 0 /\ Len(searchedFieldValue) > 0
        THEN [i \in 1..Len(search_fields) |->
                 Clause("or", FALSE, search_fields[i], "=", searchedFieldValue)]
        ELSE <<>>

\* getRowsCount: the filters are added first, the search clauses after them
CountClauses(filteringFields, settings, searchedFieldValue) ==
    FilterClauses(filteringFields) \o SearchClauses(settings, searchedFieldValue)

\* getRowsFromTable: the search clauses are added first, the filters after them
SelectClauses(filteringFields, settings, searchedFieldValue) ==
    SearchClauses(settings, searchedFieldValue) \o FilterClauses(filteringFields)

Star == <<"*">>

\* builder.orWhere(field, 'like', `${value}%`) for each field, unless value is '*'
AutocompleteClauses(autocompleteFields) ==
    IF autocompleteFields.value # Star
    THEN [i \in 1..Len(autocompleteFields.fields) |->
             Clause("or", FALSE, autocompleteFields.fields[i], "like%",
                    autocompleteFields.value)]
    ELSE <<>>

RECURSIVE Matching(_, _)
\* the rows of the table the WHERE selects, in the table's order
Matching(rows, clauses) ==
    IF Len(rows) = 0 THEN <<>>
    ELSE (IF Where(clauses, Head(rows)) THEN <<Head(rows)>> ELSE <<>>)
             \o Matching(Tail(rows), clauses)

\* select(fields): the named columns of each row
Project(rows, fields) ==
    [i \in 1..Len(rows) |->
        [k \in {fields[j] : j \in 1..Len(fields)} |-> rows[i][k]]]

\* select(availableFields): an empty list selects every column
SelectFields(rows, fields) == IF Len(fields) = 0 THEN rows ELSE Project(rows, fields)

\* ----------------------------------------------------------------- numbers
\* Constants.DEFAULT_PAGINATION and Constants.AUTOCOMPLETE_ROW_LIMIT: the
\* values are small ones, so that the model's tables exceed them.
DefaultPage == 1
DefaultPerPage == 2
AutocompleteRowLimit == 2

\* !x || x <= 0
NotPositive(x) == x.t # "number" \/ x.n <= 0

\* x && x > 0
Positive(x) == x.t = "number" /\ x.n > 0

\* Math.ceil(rowsCount / perPage)
LastPage(rowsCount, perPage) ==
    IF perPage.t # "number" THEN NaN
    ELSE IF perPage.n = 0 THEN (IF rowsCount.n = 0 THEN NaN ELSE Infinity)
    ELSE IF perPage.n > 0 THEN Num((rowsCount.n + perPage.n - 1) \div perPage.n)
    ELSE Num(-(rowsCount.n \div (-perPage.n)))

\* (page - 1) * perPage
Offset(page, perPage) ==
    IF page.t = "number" /\ perPage.t = "number"
    THEN Num((page.n - 1) * perPage.n)
    ELSE NaN

\* .limit(perPage).offset(offset): knex leaves out a limit or an offset that
\* does not parse as an integer.
LimitOffset(rows, perPage, offset) ==
    LET from == IF offset.t = "number" THEN offset.n ELSE 0
        upTo == IF perPage.t = "number" THEN Min(Len(rows), from + perPage.n)
                ELSE Len(rows)
    IN  SubSeq(rows, from + 1, upTo)

\* ------------------------------------------------------- findAvaliableFields
RemoveAt(seq, i) == SubSeq(seq, 1, i - 1) \o SubSeq(seq, i + 1, Len(seq))

RECURSIVE ExcludeFields(_, _)
\* for (const field of excludedFields) { const delIndex = ...indexOf(field);
\*   if (delIndex >= 0) availableFields.splice(availableFields.indexOf(field), 1) }
ExcludeFields(availableFields, excludedFields) ==
    IF Len(excludedFields) = 0 THEN availableFields
    ELSE LET delIndex == IndexOf(availableFields, Head(excludedFields))
         IN  ExcludeFields(IF delIndex > 0 THEN RemoveAt(availableFields, delIndex)
                           ELSE availableFields,
                           Tail(excludedFields))

StructureNames(tableStructure) ==
    [i \in 1..Len(tableStructure) |-> tableStructure[i].column_name]

\* ---------------------------------------------------------- getRowsFromTable
\* if (!page || page <= 0) { page = default; perPage = list_per_page or default }
ResolvePaging(locals, settings, page, perPage) ==
    LET list_per_page == Setting(settings, "list_per_page", Undefined)
    IN  IF NotPositive(page)
        THEN [locals EXCEPT
                 !.page = Num(DefaultPage),
                 !.perPage = IF Positive(list_per_page) /\ NotPositive(perPage)
                             THEN list_per_page
                             ELSE Num(DefaultPerPage)]
        ELSE [locals EXCEPT !.page = page, !.perPage = perPage]

\* autocompleteFields && !isObjectEmpty(autocompleteFields)
\*   && autocompleteFields.value && autocompleteFields.fields.length > 0
IsAutocomplete(autocompleteFields) ==
    /\ ~IsObjectEmpty(autocompleteFields)
    /\ Len(autocompleteFields.value) > 0
    /\ Len(autocompleteFields.fields) > 0

\* getMySqlDriver has resolved: the paging defaults, then getRowsCount is
\* called, which asks for the driver itself
GrPaging(p) ==
    /\ pc[p] = "gr_paging"
    /\ GetMySqlDriver(p,
           ResolvePaging(loc[p], args[p].settings, args[p].page, args[p].perPage),
           <<"rc_knex", "gr_count">>)
    /\ UNCHANGED <<driverCache, knexCache, tunnels, knexBuilt, db, connection, op,
                   args, awaited, calls>>

\* getRowsCount: configureKnex, then the count query
RcKnex(p) ==
    /\ pc[p] = "rc_knex"
    /\ KnexThenQuery(p, ConnectionConfig(connection[p]), "rc_query")

\* return count[0]['count(*)']
RcQuery(p) ==
    /\ pc[p] = "rc_query"
    /\ \/ /\ CanQuery(loc[p].mySqlDriver)
          /\ Settles(p, "count", TRUE)
          /\ Return(p, [loc[p] EXCEPT !.rowsCount =
                Num(Len(Matching(db.rows[args[p].tableName],
                                 CountClauses(args[p].filteringFields, args[p].settings,
                                              args[p].searchedFieldValue))))])
       \/ Settles(p, "count", FALSE) /\ Throw(p, QueryError)
    /\ UNCHANGED <<driverCache, knexCache, tunnels, knexBuilt, db, connection, op,
                   args, calls>>

\* getRowsCount has resolved: lastPage, offset, then findAvaliableFields, which
\* either needs the table structure or settles at once with list_fields cut
\* by excluded_fields (the splice is done on settings.list_fields itself)
GrCount(p) ==
    LET settings == args[p].settings
        list_fields == Setting(settings, "list_fields", <<>>)
        locals == [loc[p] EXCEPT
                      !.lastPage = LastPage(loc[p].rowsCount, loc[p].perPage),
                      !.offset = Offset(loc[p].page, loc[p].perPage)]
        availableFields ==
            ExcludeFields(list_fields, Setting(settings, "excluded_fields", <<>>))
    IN  /\ pc[p] = "gr_count"
        /\ IF IsObjectEmpty(settings) \/ Len(list_fields) = 0
           THEN /\ GetMySqlDriver(p, locals, <<"ts_knex", "faf_structure", "gr_fields">>)
                /\ UNCHANGED args
           ELSE /\ Goto(p, "gr_fields",
                        [locals EXCEPT !.availableFields = availableFields])
                /\ args' = [args EXCEPT ![p].settings.list_fields = availableFields]
        /\ UNCHANGED <<driverCache, knexCache, tunnels, knexBuilt, db, connection, op,
                       awaited, calls>>

\* findAvaliableFields, getTableStructure resolved: all the columns, cut by
\* excluded_fields unless the settings are empty
FafStructure(p) ==
    LET names == StructureNames(loc[p].tableStructure)
        settings == args[p].settings
    IN  /\ pc[p] = "faf_structure"
        /\ Return(p, [loc[p] EXCEPT !.availableFields =
                IF IsObjectEmpty(settings) THEN names
                ELSE ExcludeFields(names, Setting(settings, "excluded_fields", <<>>))])
        /\ UNCHANGED <<driverCache, knexCache, tunnels, knexBuilt, db, connection, op,
                       args, awaited, calls>>

\* findAvaliableFields has resolved: configureKnex, then the autocomplete
\* query or the paginated select
GrFields(p) ==
    /\ pc[p] = "gr_fields"
    /\ KnexThenQuery(p, ConnectionConfig(connection[p]),
                     IF IsAutocomplete(args[p].autocompleteFields)
                     THEN "gr_autocomplete" ELSE "gr_select")

\* rowsRO = { data: rows, pagination: {} }
GrAutocomplete(p) ==
    LET rows == Project(Matching(db.rows[args[p].tableName],
                                 AutocompleteClauses(args[p].autocompleteFields)),
                        args[p].autocompleteFields.fields)
    IN  /\ pc[p] = "gr_autocomplete"
        /\ \/ /\ CanQuery(loc[p].mySqlDriver)
              /\ Settles(p, "autocomplete", TRUE)
              /\ Finish(p, Returned(
                    [data |-> SubSeq(rows, 1, Min(Len(rows), AutocompleteRowLimit)),
                     pagination |-> <<>>]))
           \/ Settles(p, "autocomplete", FALSE) /\ Throw(p, QueryError)
        /\ UNCHANGED <<driverCache, knexCache, tunnels, knexBuilt, db, connection, op,
                       args, calls>>

\* rowsRO = { data: rows, pagination: { total, lastPage, perPage, currentPage } }
GrSelect(p) ==
    LET matching == Matching(db.rows[args[p].tableName],
                             SelectClauses(args[p].filteringFields, args[p].settings,
                                           args[p].searchedFieldValue))
        rows == SelectFields(matching, loc[p].availableFields)
    IN  /\ pc[p] = "gr_select"
        /\ \/ /\ CanQuery(loc[p].mySqlDriver)
              /\ Settles(p, "select", TRUE)
              /\ Finish(p, Returned(
                    [data |-> LimitOffset(rows, loc[p].perPage, loc[p].offset),
                     pagination |->
                         [total |-> loc[p].rowsCount, lastPage |-> loc[p].lastPage,
                          perPage |-> loc[p].perPage, currentPage |-> loc[p].page]]))
           \/ Settles(p, "select", FALSE) /\ Throw(p, QueryError)
        /\ UNCHANGED <<driverCache, knexCache, tunnels, knexBuilt, db, connection, op,
                       args, calls>>

\* getMySqlDriver, then the rest of getRowsFromTable
GetRowsFromTable(p, arguments) ==
    /\ Started(p, "getRowsFromTable", arguments)
    /\ GetMySqlDriver(p, NoLocals, <<"gr_paging">>)
    /\ UNCHANGED <<driverCache, knexCache, tunnels, knexBuilt, db, connection>>

\* ------------------------------------------------------- listing scenarios
X == <<"x">>
XY == <<"x", "y">>
Y == <<"y">>
ItemValues == <<X, XY, Y>>

\* every row over the three values, in a fixed order
AllItems ==
    [i \in 1..9 |-> [a |-> ItemValues[((i - 1) \div 3) + 1],
                     b |-> ItemValues[((i - 1) % 3) + 1]]]

SeqsUpTo(set, n) == UNION {[1..m -> set] : m \in 0..n}

Arguments(settings, page, perPage, searchedFieldValue, filteringFields, autocompleteFields) ==
    [tableName |-> "items", settings |-> settings, page |-> page,
     perPage |-> perPage, searchedFieldValue |-> searchedFieldValue,
     filteringFields |-> filteringFields, autocompleteFields |-> autocompleteFields]

Scenario(rows, arguments) == [rows |-> rows, arguments |-> arguments]

\* Paging: every combination of page, perPage and list_per_page, missing,
\* zero or positive, with and without an autocomplete request, over tables of
\* 0..MaxRows rows.
PagingScenarios ==
    {Scenario([i \in 1..n |-> [a |-> X, b |-> Y]],
              Arguments(settings, page, perPage, <<>>, <<>>, autocompleteFields)) :
        n \in 0..MaxRows,
        settings \in {<<>>, [list_per_page |-> Num(0)], [list_per_page |-> Num(3)],
                      [list_fields |-> <<"a">>, list_per_page |-> Num(3)]},
        page \in {Undefined, Num(0), Num(1), Num(2)},
        perPage \in {Undefined, Num(0), Num(1), Num(2)},
        autocompleteFields \in {<<>>, [fields |-> <<"a">>, value |-> X],
                                [fields |-> <<"a", "b">>, value |-> Star]}}

Criteria ==
    {"eq", "startswith", "endswith", "gt", "lt", "lte", "gte", "contains",
     "icontains"}

FilterPool ==
    [field : {"a", "b"}, criteria : Criteria, value : {X}]
        \cup [field : {"a", "b"}, criteria : {"eq"}, value : {Y}]

\* Filters and search: up to MaxFilters filters, none, one or two search
\* fields, with and without a search term, over the one-row tables and the
\* table of all rows.
QueryScenarios ==
    {Scenario(rows, Arguments([search_fields |-> search_fields], Num(1), Num(2),
                              searchedFieldValue, filteringFields, <<>>)) :
        rows \in {<<AllItems[i]>> : i \in 1..9} \cup {AllItems},
        search_fields \in {<<>>, <<"a">>, <<"a", "b">>},
        searchedFieldValue \in {<<>>, X},
        filteringFields \in SeqsUpTo(FilterPool, MaxFilters)}

\* Projection: every list_fields and excluded_fields over the two columns,
\* repeated names included.
ProjectionScenarios ==
    {Scenario(<<AllItems[2]>>,
              Arguments([list_fields |-> list_fields, excluded_fields |-> excluded_fields],
                        Num(1), Num(2), <<>>, <<>>, <<>>)) :
        list_fields \in SeqsUpTo({"a", "b"}, MaxListFields),
        excluded_fields \in SeqsUpTo({"a", "b"}, MaxExcludedFields)}

RowsScenarios == PagingScenarios \cup QueryScenarios \cup ProjectionScenarios

\* ------------------------------------------------------------ specification
Idle ==
    /\ op = [p \in Callers |-> "none"]
    /\ args = [p \in Callers |-> NoArgs]
    /\ pc = [p \in Callers |-> "idle"]
    /\ ret = [p \in Callers |-> <<>>]
    /\ loc = [p \in Callers |-> NoLocals]
    /\ awaited = [p \in Callers |-> <<>>]
    /\ result = [p \in Callers |-> NoResult]
    /\ calls = 0

NoCaches ==
    /\ driverCache = [k \in CacheKeys |-> NoHandle]
    /\ knexCache = [k \in CacheKeys |-> NoHandle]
    /\ tunnels = 0
    /\ knexBuilt = 0

\* Two callers, each with a DaoSshMysql of its own (on equal descriptors or
\* on different ones), on an empty database.
Init ==
    /\ NoCaches
    /\ Idle
    /\ db = EmptyDb
    /\ connection \in {c \in [Callers -> Connections] : c["c1"] = Connection("h1")}

Next ==
    \E p \in Callers :
        \/ TestConnect(p)
        \/ TcKnex(p)
        \/ TcSelect(p)
        \/ AddRowInTable(p)
        \/ ArStructure(p)
        \/ ArPrimary(p)
        \/ ArKnex(p)
        \/ ArInsert(p)
        \/ ArLastId(p)
        \/ GdPort(p)
        \/ GdTunnel(p)
        \/ TsKnex(p)
        \/ TsQuery(p)
        \/ PkKnex(p)
        \/ PkQuery(p)

Spec == Init /\ [][Next]_vars

\* One listing: a caller with an empty cache lists the table "items", whose
\* content and the call's arguments are one of the scenarios.
RowsCaller == "c1"

InitRows ==
    /\ NoCaches
    /\ Idle
    /\ connection = [p \in Callers |-> Connection("h1")]
    /\ db \in {[EmptyDb EXCEPT !.rows["items"] = s.rows] : s \in RowsScenarios}

ListRows ==
    /\ calls = 0
    /\ \E s \in RowsScenarios :
          /\ s.rows = db.rows["items"]
          /\ GetRowsFromTable(RowsCaller, s.arguments)

NextRows ==
    \/ ListRows
    \/ GrPaging(RowsCaller)
    \/ RcKnex(RowsCaller)
    \/ RcQuery(RowsCaller)
    \/ GrCount(RowsCaller)
    \/ FafStructure(RowsCaller)
    \/ GrFields(RowsCaller)
    \/ GrAutocomplete(RowsCaller)
    \/ GrSelect(RowsCaller)
    \/ GdPort(RowsCaller)
    \/ GdTunnel(RowsCaller)
    \/ TsKnex(RowsCaller)
    \/ TsQuery(RowsCaller)

SpecRows == InitRows /\ [][NextRows]_vars

\* ------------------------------------------------------------------ claims
Settled(p, name) == op[p] = name /\ pc[p] = "idle"

Resolved(call) == [call |-> call, ok |-> TRUE]
Rejected(call) == [call |-> call, ok |-> FALSE]

AllResolved(p) == \A i \in 1..Len(awaited[p]) : awaited[p][i].ok

HasAwaited(p, call) == \E i \in 1..Len(awaited[p]) : awaited[p][i].call = call

AwaitedEndsWith(p, tail) ==
    /\ Len(awaited[p]) >= Len(tail)
    /\ SubSeq(awaited[p], Len(awaited[p]) - Len(tail) + 1, Len(awaited[p])) = tail

\* C1: callers on structurally equal descriptors never have two tunnel
\* establishments outstanding, the tunnel collaborator produces one driver
\* for them in total, and the drivers they hold are the same handle.
C1_ConcurrentFirstCallsShareOneBuild ==
    \A p, q \in Callers :
        (p # q /\ connection[p] = connection[q]) =>
            /\ ~(pc[p] = "gd_tunnel" /\ pc[q] = "gd_tunnel")
            /\ tunnels <= 1
            /\ (loc[p].mySqlDriver.kind = "driver" /\ loc[q].mySqlDriver.kind = "driver")
                  => loc[p].mySqlDriver = loc[q].mySqlDriver

TunnelRejects(p) ==
    /\ pc[p] = "gd_tunnel"
    /\ awaited'[p] = Append(awaited[p], Rejected("getSshMySqlClient"))

\* C2: when getSshMySqlClient rejects, what the caller of getMySqlDriver gets
\* is the connection-establishment error (testConnect, which catches it,
\* answers false), the failure stores nothing in the driver cache, which has
\* no entry for the descriptor unless a tunnel was built meanwhile, and a
\* call that finds no entry goes to the tunnel again.
C2_TunnelFailureIsTranslatedAndNotStored ==
    [][\A p \in Callers :
          /\ TunnelRejects(p) =>
                /\ result'[p] = IF op[p] = "testConnect" THEN Returned(FALSE)
                                ELSE Thrown(ConnectionEstablishmentFailed)
                /\ driverCache' = driverCache
                /\ tunnels = 0 => driverCache'[CacheKey(connection[p])] = NoHandle
          /\ (pc[p] = "idle" /\ pc'[p] # "idle"
                /\ driverCache[CacheKey(connection[p])] = NoHandle)
                => pc'[p] = "gd_port"]_vars

\* C2 witness: the tunnel was refused on a caller's first attempt, the caller
\* got the connection-establishment error and the cache has no entry.
C2_Witness ==
    \E p \in Callers :
        /\ Settled(p, "addRowInTable")
        /\ awaited[p] = <<Resolved("getPort"), Rejected("getSshMySqlClient")>>
        /\ result[p] = Thrown(ConnectionEstablishmentFailed)
        /\ driverCache[CacheKey(connection[p])] = NoHandle

\* C3: testConnect never throws; it returns true exactly when everything it
\* awaited resolved and the last of it was the liveness query, so it
\* returns false when getPort or the tunnel fails and when select 1 fails.
C3_TestConnectNeverRaises ==
    \A p \in Callers :
        Settled(p, "testConnect") =>
            /\ result[p].kind = "return"
            /\ result[p].val \in BOOLEAN
            /\ result[p].val = (AllResolved(p) /\ AwaitedEndsWith(p, <<Resolved("select 1")>>))

\* C3 witness: the tunnel was built, the liveness query failed, the answer
\* is false.
C3_Witness ==
    \E p \in Callers :
        /\ Settled(p, "testConnect")
        /\ awaited[p] = <<Resolved("getPort"), Resolved("getSshMySqlClient"),
                          Rejected("select 1")>>
        /\ result[p] = Returned(FALSE)

GeneratedIds(tableName) ==
    {db.rows[tableName][i].id : i \in 1..Len(db.rows[tableName])}

\* C4: an addRowInTable that returns, on the auto-increment table, has
\* awaited the insert and then the last-insert-id query and returns the
\* generated id under the key's name (the id of the table's only row when
\* there is just one); on the table with a supplied key it has awaited the
\* insert last, no last-insert-id query, and returns the supplied value.
C4_AddRowReturnsKey ==
    \A p \in Callers :
        (Settled(p, "addRowInTable") /\ result[p].kind = "return") =>
            /\ args[p].tableName = "orders" =>
                  /\ AwaitedEndsWith(p, <<Resolved("insert"), Resolved("last insert id")>>)
                  /\ DOMAIN result[p].val = {"id"}
                  /\ result[p].val.id \in GeneratedIds("orders")
                  /\ Len(db.rows["orders"]) = 1 =>
                        result[p].val.id = db.rows["orders"][1].id
            /\ args[p].tableName = "codes" =>
                  /\ AwaitedEndsWith(p, <<Resolved("insert")>>)
                  /\ ~HasAwaited(p, "last insert id")
                  /\ result[p].val = KeyObject("code", args[p].row.code)

\* C4 witness: one caller got a generated id back, the other its own key.
C4_Witness ==
    \E p, q \in Callers :
        /\ Settled(p, "addRowInTable") /\ args[p].tableName = "orders"
        /\ result[p] = Returned(KeyObject("id", 1))
        /\ Settled(q, "addRowInTable") /\ args[q].tableName = "codes"
        /\ result[q] = Returned(KeyObject("code", <<"m">>))

\* C10: an addRowInTable on the table without a primary key, all of whose
\* awaited queries resolved, has sent the insert and returns no value.
C10_AddRowWithoutPrimaryKey ==
    \A p \in Callers :
        (/\ Settled(p, "addRowInTable")
         /\ args[p].tableName = "notes"
         /\ AllResolved(p)) =>
            /\ AwaitedEndsWith(p, <<Resolved("insert")>>)
            /\ result[p] = Returned(Void)


\* ------------------------------------------------------- claims on a listing
Listing == op[RowsCaller] = "getRowsFromTable"

Listed ==
    /\ Settled(RowsCaller, "getRowsFromTable")
    /\ result[RowsCaller].kind = "return"

Paginated == Listed /\ ~IsAutocomplete(args[RowsCaller].autocompleteFields)

RECURSIVE Without(_, _)
\* the list with every occurrence of the names taken out, the rest in order
Without(list, names) ==
    IF Len(list) = 0 THEN <<>>
    ELSE IF Head(list) \in names THEN Without(Tail(list), names)
    ELSE <<Head(list)>> \o Without(Tail(list), names)

Names(list) == {list[i] : i \in 1..Len(list)}

\* C5: with non-empty settings the projection list is the base list
\* (list_fields when it is non-empty, else all the columns of the table) with
\* every name of excluded_fields removed and the other names in their order,
\* whatever the two lists are, repeated names included.
C5_ProjectionRemovesEveryExcludedName ==
    [][(/\ Listing
        /\ ~IsObjectEmpty(args[RowsCaller].settings)
        /\ pc[RowsCaller] \in {"gr_count", "faf_structure"}
        /\ pc'[RowsCaller] = "gr_fields")
       => LET settings == args[RowsCaller].settings
              list_fields == Setting(settings, "list_fields", <<>>)
              base == IF Len(list_fields) > 0 THEN list_fields
                      ELSE ColumnNames(args[RowsCaller].tableName)
              excluded == Names(Setting(settings, "excluded_fields", <<>>))
          IN  loc'[RowsCaller].availableFields = Without(base, excluded)]_vars

\* C6: the listing reports the page asked for, or the default page when it is
\* missing or not positive; with no explicit perPage the page size is
\* list_per_page when that is positive, else the default size; the page size
\* reported is always a positive integer and lastPage is ceil(total / perPage).
C6_PagingDefaults ==
    Paginated =>
        LET pagination == result[RowsCaller].val.pagination
            page == args[RowsCaller].page
            perPage == args[RowsCaller].perPage
            list_per_page == Setting(args[RowsCaller].settings, "list_per_page", Undefined)
        IN  /\ pagination.currentPage =
                   (IF Positive(page) THEN page ELSE Num(DefaultPage))
            /\ NotPositive(perPage) =>
                   pagination.perPage =
                       (IF Positive(list_per_page) THEN list_per_page
                        ELSE Num(DefaultPerPage))
            /\ Positive(pagination.perPage)
            /\ pagination.lastPage =
                   Num((pagination.total.n + pagination.perPage.n - 1)
                           \div pagination.perPage.n)

\* the rows that satisfy every filter and, when a search is active, have some
\* search field equal to the term
Wanted(rows, filteringFields, settings, searchedFieldValue) ==
    LET filters == FilterClauses(filteringFields)
        searches == SearchClauses(settings, searchedFieldValue)
        Keeps(row) ==
            /\ \A i \in 1..Len(filters) : ClauseHolds(filters[i], row)
            /\ \/ Len(searches) = 0
               \/ \E j \in 1..Len(searches) : ClauseHolds(searches[j], row)
        indices == {i \in 1..Len(rows) : Keeps(rows[i])}
        RECURSIVE Pick(_)
        Pick(i) == IF i > Len(rows) THEN <<>>
                   ELSE IF i \in indices THEN <<rows[i]>> \o Pick(i + 1)
                   ELSE Pick(i + 1)
    IN  Pick(1)

\* C7: the select query returns the page of exactly the rows that satisfy
\* every filter and, when a search term and search fields are given, have at
\* least one search field equal to the term.
C7_SelectIsFiltersAndSearch ==
    [][(/\ Listing
        /\ pc[RowsCaller] = "gr_select"
        /\ pc'[RowsCaller] = "idle"
        /\ result'[RowsCaller].kind = "return")
       => result'[RowsCaller].val.data =
              LimitOffset(
                  SelectFields(
                      Wanted(db.rows[args[RowsCaller].tableName],
                             args[RowsCaller].filteringFields, args[RowsCaller].settings,
                             args[RowsCaller].searchedFieldValue),
                      loc[RowsCaller].availableFields),
                  loc[RowsCaller].perPage, loc[RowsCaller].offset)]_vars

\* C8: the table being unchanged between the two queries, pagination.total is
\* the number of rows the select query matches before limit and offset.
C8_TotalCountsTheSelectedRows ==
    Paginated =>
        result[RowsCaller].val.pagination.total =
            Num(Len(Matching(db.rows[args[RowsCaller].tableName],
                             SelectClauses(args[RowsCaller].filteringFields,
                                           args[RowsCaller].settings,
                                           args[RowsCaller].searchedFieldValue))))

\* C9: an autocomplete request runs the autocomplete query only: neither the
\* count query nor the lookup of the projection is run for it, and it returns
\* the capped rows with an empty pagination object.
C9_AutocompleteRunsOneQuery ==
    (Listing /\ IsAutocomplete(args[RowsCaller].autocompleteFields)) =>
        /\ ~HasAwaited(RowsCaller, "count")
        /\ ~HasAwaited(RowsCaller, "structure")
        /\ pc[RowsCaller] \notin {"rc_knex", "rc_query", "gr_count", "faf_structure"}
        /\ Listed =>
               /\ result[RowsCaller].val.pagination = <<>>
               /\ Len(result[RowsCaller].val.data) <= AutocompleteRowLimit

\* ------------------------------------------------------ claims on the caches
KnexLabels == {"tc_knex", "ts_knex", "pk_knex", "ar_knex"}

\* caller p runs configureKnex in this step
ConfiguresKnex(p) == pc[p] \in KnexLabels /\ pc'[p] # pc[p]

\* the descriptor it passes
KnexConfig(p) ==
    IF pc[p] = "tc_knex" THEN connection[p] ELSE ConnectionConfig(connection[p])

\* C11: the driver and the query-engine handle are independent cache entries:
\* the driver-cache entry of a descriptor, when present, is always a handle the
\* tunnel collaborator produced, a configureKnex never replaces it, and a
\* configureKnex for a descriptor an engine handle was already built for
\* builds no new one.
C11_DriverAndKnexEntriesAreIndependent ==
    [][/\ \A c \in Connections :
              driverCache'[CacheKey(c)].kind \in {"none", "driver"}
       /\ \A p \in Callers :
              ConfiguresKnex(p) =>
                  /\ \A c \in Connections :
                         driverCache[CacheKey(c)].kind = "driver"
                             => driverCache'[CacheKey(c)] = driverCache[CacheKey(c)]
                  /\ driverCache[CacheKey(KnexConfig(p))].kind = "knex"
                         => knexBuilt' = knexBuilt]_vars

\* caller p has inserted into the auto-increment table and has not yet got
\* the answer of its follow-up query
AwaitsLastId(p) == op[p] = "addRowInTable" /\ pc[p] = "ar_lastid"

\* C12: of two concurrent addRowInTable calls on one cached driver and an
\* auto-increment table each returns the id its own insert generated: while a
\* call is between its insert and the answer of its follow-up query no step
\* changes the LAST_INSERT_ID() of its session, and two calls never return
\* the same id.
C12_EachCallReturnsItsOwnId ==
    [][/\ \A p \in Callers :
              (AwaitsLastId(p) /\ pc'[p] = "ar_lastid") =>
                  db'.lastInsertId[loc[p].mySqlDriver.id]
                      = db.lastInsertId[loc[p].mySqlDriver.id]
       /\ \A p, q \in Callers :
              (/\ p # q
               /\ Settled(p, "addRowInTable")' /\ Settled(q, "addRowInTable")'
               /\ args'[p].tableName = "orders" /\ args'[q].tableName = "orders"
               /\ result'[p].kind = "return" /\ result'[q].kind = "return")
                  => result'[p].val # result'[q].val]_vars

====
